---- MODULE Spec2Model ----
(***************************************************************************)
(* A model of the kvraft layer of talent-plan (dss/raft/src/kvraft):       *)
(* the per-replica KvStateMachine with its apply loop (server.rs), the RPC *)
(* handlers do_get / do_put_append (server.rs) and the Clerk with its      *)
(* retry loop (client.rs).  The Raft module itself is not part of these    *)
(* sources; it is modelled by the contract the kvraft layer consumes.      *)
(***************************************************************************)
EXTENDS Naturals, Integers, Sequences, FiniteSets, TLC

(***************************************************************************)
(* Bounds of the model.                                                    *)
(***************************************************************************)
\* number of get/put/append calls the clerk makes
MaxOps == 2
\* longest Raft log a replica may hold
MaxLog == 3
\* number of rounds of Clerk::request in one call
MaxTries == 2
\* number of times the replica is killed and started again
MaxKills == 1

\* the clerk's servers: the replica modelled in full and a peer, which runs
\* the same code and is modelled by the replies it can give
Me == 1
Peer == 2
Servers == {Me, Peer}
Clients == {"ck"}
Keys == {"k"}
\* the clerk's cached leader when it knows none (Cell<Option<usize>> = None)
NoLeader == 0
EmptyMap == [x \in {} |-> 0]
EmptyStr == << >>

MapPut(m, k, v) == [x \in (DOMAIN m) \cup {k} |-> IF x = k THEN v ELSE m[x]]
MapGetOr(m, k, d) == IF k \in DOMAIN m THEN m[k] ELSE d

(***************************************************************************)
(* Request ids.  Clerk::new_id (client.rs 87-90) sends a Uuid as its       *)
(* bytes; build_uuid (server.rs 46-48) and Command::get_id (server.rs      *)
(* 175-189) read it back with Uuid::from_slice.  A Uuid is modelled as a   *)
(* number and its 16 bytes as two bytes, most significant first  .         *)
(***************************************************************************)
Byte == 256

UuidAsBytesLow(u) == <<0, u % Byte>>

UuidAsBytes(u) == <<(u \div Byte) % Byte, u % Byte>>

BuildUuid(origin) == origin[1] * Byte + origin[2]

(***************************************************************************)
(* The requests (client.rs 30-47, 178-182) and what the replica makes of   *)
(* the bytes Raft hands back: KvCommand::from_bytes, from_put_append and   *)
(* from_get (server.rs 50-87).  The encoding itself is labcodec's; a       *)
(* message is modelled by its name and fields, and decodes as the message  *)
(* it is.                                                                  *)
(***************************************************************************)
OpPut == 1
OpAppend == 2

GetRequest(id, key, client) ==
    [msg |-> "GetRequest", id |-> id, key |-> key, client |-> client]

\* Op::into_request with the id it draws
IntoRequest(op, key, value, client, id) ==
    [msg |-> "PutAppendRequest", id |-> id, key |-> key, value |-> value,
     op |-> IF op = "Put" THEN OpPut ELSE OpAppend, client |-> client]

FromPutAppend(request) ==
    [type |-> CASE request.op = OpPut -> "Put" [] request.op = OpAppend -> "Append",
     id |-> BuildUuid(request.id), key |-> request.key,
     value |-> request.value, client |-> request.client]

FromGet(request) ==
    [type |-> "Get", id |-> BuildUuid(request.id), key |-> request.key,
     value |-> << >>, client |-> request.client]

FromBytes(proto) ==
    IF proto.msg = "PutAppendRequest" THEN FromPutAppend(proto)
    ELSE FromGet(proto)

(***************************************************************************)
(* The Command trait (server.rs 167-206).                                  *)
(***************************************************************************)
IsReadonly(cmd) == cmd.type = "Get"

(***************************************************************************)
(* err_codes and KvError::get_code (server.rs 120-139).                    *)
(***************************************************************************)
KVERR_RAFT == 1
KVERR_NOT_LEADER == 2
KVERR_FAIL_TO_COMMIT == 3
KVERR_TIMEOUT == 4
KVERR_CLOESD == 5

GetCodeNotLeader(e) == KVERR_NOT_LEADER

GetCode(e) ==
    CASE e = "Raft" -> KVERR_RAFT
      [] e = "NotLeader" -> KVERR_NOT_LEADER
      [] e = "FailToCommit" -> KVERR_FAIL_TO_COMMIT
      [] e = "Timeout" -> KVERR_TIMEOUT

(***************************************************************************)
(* KvStateMachine::has_done (server.rs 506-509).                           *)
(***************************************************************************)
HasDone(lc, client, id) == IF client \in DOMAIN lc THEN lc[client] = id ELSE FALSE

(***************************************************************************)
(* KvStateMachine::handle_command (server.rs 229-260), in its two critical *)
(* sections: the history check and insert under the last_command lock, and *)
(* the mutation under the state lock.                                      *)
(***************************************************************************)
ReplicatedNever(lc, cmd) == FALSE

Replicated(lc, cmd) ==
    IF cmd.client \in DOMAIN lc THEN lc[cmd.client] = cmd.id ELSE FALSE

HandleCommandHistory(lc, cmd) ==
    IF Replicated(lc, cmd) THEN lc ELSE MapPut(lc, cmd.client, cmd.id)

HandleCommandState(kv, cmd) ==
    CASE cmd.type = "Put" -> MapPut(kv, cmd.key, cmd.value)
      [] cmd.type = "Append" ->
             MapPut(kv, cmd.key, MapGetOr(kv, cmd.key, EmptyStr) \o cmd.value)
      [] OTHER -> kv

(***************************************************************************)
(* KvStateMachine::notify_at (server.rs 285-308): the CommandResponse      *)
(* built for the waiter of index idx.                                      *)
(***************************************************************************)
NotifyResponseNoValue(kv, cmd, idx) ==
    [command_id |-> cmd.id, reply |-> EmptyStr, command_idx |-> idx]

NotifyResponse(kv, cmd, idx) ==
    IF cmd.type = "Get"
    THEN [command_id |-> cmd.id,
          reply |-> MapGetOr(kv, cmd.key, EmptyStr),
          command_idx |-> idx]
    ELSE [command_id |-> cmd.id, reply |-> EmptyStr, command_idx |-> idx]

(***************************************************************************)
(* The closure of KvStateMachine::start (server.rs 480-486): what the      *)
(* handler's future yields for the response its waiter received.           *)
(***************************************************************************)
StartResultAlwaysOk(resp, cmd_id) == "Ok"

StartResult(resp, cmd_id) ==
    IF resp.command_id = cmd_id THEN "Ok" ELSE "FailToCommit"

(***************************************************************************)
(* The replies of Node::do_get and Node::do_put_append (server.rs 620-695).*)
(* A PutAppendReply has no value field; it is modelled with an empty one.  *)
(***************************************************************************)
ReplyNotLeader ==
    [wrong_leader |-> TRUE, err |-> "not leader", value |-> EmptyStr,
     err_code |-> GetCode("NotLeader")]

ReplyOk(value) ==
    [wrong_leader |-> FALSE, err |-> "", value |-> value, err_code |-> 0]

ReplyErr(e) ==
    [wrong_leader |-> FALSE, err |-> "ERROR", value |-> EmptyStr,
     err_code |-> GetCode(e)]

ReplyClosed ==
    [wrong_leader |-> FALSE, err |-> "FSM cancels execution.",
     value |-> EmptyStr, err_code |-> KVERR_CLOESD]

\* the map over the selected result (server.rs 628-647, 672-688)
ReplyOfResult(result, resp, isGet) ==
    CASE result = "NotLeader" -> ReplyNotLeader
      [] result = "Ok" -> ReplyOk(IF isGet THEN resp.reply ELSE EmptyStr)
      [] OTHER -> ReplyErr(result)

\* the end of do_get / do_put_append (server.rs 626-654, 670-694): what the
\* select of the waiter's receiver and timeout_fut yields, made a reply.
\*   "rx": the receiver yielded, fired is the reply mapped from it;
\*   "timer": timeout_fut yielded Err(Timeout);
\*   "canceled": the Sender was dropped, the select fails with ((), _) and
\*   unwrap_or_else builds the reply
HandlerReplyCanceledOk(sel, fired) ==
    CASE sel = "rx" -> fired
      [] sel = "timer" -> ReplyErr("Timeout")
      [] sel = "canceled" -> ReplyOk(EmptyStr)

HandlerReplyCanceledTimesOut(sel, fired) ==
    CASE sel = "rx" -> fired
      [] sel = "timer" -> ReplyErr("Timeout")
      [] sel = "canceled" -> ReplyErr("Timeout")

HandlerReply(sel, fired) ==
    CASE sel = "rx" -> fired
      [] sel = "timer" -> ReplyErr("Timeout")
      [] sel = "canceled" -> ReplyClosed

(***************************************************************************)
(* The clerk's is_leader closures (client.rs 185-189, 215-219).  A         *)
(* transport error is the reply TransportErr.                              *)
(***************************************************************************)
TransportErr == [transport |-> TRUE]
IsTransportErr(reply) == "transport" \in DOMAIN reply

IsLeaderReplyAnyOk(reply) == ~IsTransportErr(reply)

IsLeaderReply(reply) ==
    IF IsTransportErr(reply) THEN FALSE
    ELSE IF reply.wrong_leader THEN FALSE
    ELSE TRUE

\* the match of Clerk::get / Clerk::put_append on the result of request
\* (client.rs 192-202, 222-234): does this reply end the call?
EndsCallAnyOk(reply) == ~IsTransportErr(reply)

EndsCall(reply) == ~IsTransportErr(reply) /\ reply.err = ""


(***************************************************************************)
(* State.                                                                  *)
(***************************************************************************)
VARIABLES
    \* the KvStateMachine of replica Me (server.rs 143-165)
    state,              \* BTreeMap<String, String>
    last_command,       \* HashMap<String, Uuid>
    last_index,         \* AtomicUsize
    waiting_channels,   \* the indices that hold a Sender<CommandResponse>
    \* Raft, by its contract
    rlog,               \* the log of replica Me
    clog,               \* the committed log of the cluster
    commitIndex,        \* raft.commit_index() of replica Me
    believes,           \* raft.start of replica Me returns Ok
    \* RPCs sent by the clerk: in flight, or in a handler awaiting its waiter
    rpcs,
    \* Clerk (client.rs 21-27) and the call it is in
    ckPc, ckArgs, ckLeader, ckOps, ckHist, uuid, ckTries,
    \* history: mutations that made the KV map of Me per request id, and the
    \* reply a handler produced in the last step
    effects, lastReply,
    \* the apply loop's worker: where it is in handle_message, and of which index
    applyPc, applyM,
    \* Node::kill and what follows: where the killing thread is, the number
    \* of kills so far, the snapshot it is making, what Raft's persister
    \* holds, and the snapshot blobs the apply stream has yet to yield
    killPc, kills, snap, persisted, pending,
    \* history: the put/append handler of Me whose timer fired last, as
    \* <<index, client, id>>
    timedOut,
    \* the threads of one replica at the level of its mutexes: where each
    \* thread is, and the thread that holds each mutex
    tpc, owner,
    \* the worker on the apply stream: the index of the next message of
    \* apply_ch, and the commit index up to which it catches up (0: it is
    \* not catching up)
    streamAt, catchTo

smVars == <<state, last_command, last_index, waiting_channels>>
raftVars == <<rlog, clog, commitIndex, believes>>
clerkVars == <<ckPc, ckArgs, ckLeader, ckOps, ckHist, uuid, ckTries>>
lockVars == <<tpc, owner>>
streamVars == <<streamAt, catchTo>>
killVars == <<applyPc, applyM, killPc, kills, snap, persisted, pending, lockVars,
              streamVars>>
vars == <<smVars, raftVars, rpcs, clerkVars, effects, lastReply, killVars, timedOut>>

NoArgs == [msg |-> "none"]
NoReply == [kind |-> "none"]
NoSnapshot == [made |-> FALSE]
NoPending == [blobs |-> << >>, eff |-> EmptyMap]

\* the reply rep that the handler of RPC h produced, and how (kind)
Replied(kind, h, idx, rep) ==
    [kind |-> kind, to |-> h.to, id |-> BuildUuid(h.req.id),
     client |-> h.req.client, type |-> FromBytes(h.req).type, key |-> h.req.key,
     live |-> h.live, idx |-> idx, rep |-> rep]

(***************************************************************************)
(* KvStateMachine::new and KvServer::new (server.rs 368-389, 525-549),     *)
(* Clerk::new (client.rs 57-70).                                           *)
(***************************************************************************)
Init ==
    /\ state = EmptyMap
    /\ last_command = EmptyMap
    /\ last_index = 0
    /\ waiting_channels = {}
    /\ rlog = << >>
    /\ clog = << >>
    /\ commitIndex = 0
    /\ believes = FALSE
    /\ rpcs = {}
    /\ ckPc = "idle"
    /\ ckArgs = NoArgs
    /\ ckLeader = NoLeader
    /\ ckOps = 0
    /\ ckHist = << >>
    /\ uuid = 0
    /\ ckTries = 0
    /\ effects = EmptyMap
    /\ lastReply = NoReply
    /\ applyPc = "idle"
    /\ applyM = 0
    /\ killPc = "alive"
    /\ kills = 0
    /\ snap = NoSnapshot
    /\ persisted = NoSnapshot
    /\ pending = NoPending
    /\ timedOut = {}
    /\ streamAt = 1
    /\ catchTo = 0
    /\ tpc = EmptyMap
    /\ owner = EmptyMap

(***************************************************************************)
(* The clerk.                                                              *)
(***************************************************************************)
\* Clerk::new_id (client.rs 87-90): a uuid no earlier call returned
NewId(counter) == counter + 1

\* one RPC of run_async(client.get(&args)) / run_async(client.put_append(&args))
\* (client.rs 184, 214): it carries the call's args
\* (op: the number of the call that sent it)
SendRpcFreshId(args, to, op) ==
    [req |-> [args EXCEPT !.id = UuidAsBytes(BuildUuid(args.id) + to)],
     call |-> op, to |-> to, live |-> TRUE, st |-> "sent", idx |-> 0]

SendRpc(args, to, op) ==
    [req |-> args, call |-> op, to |-> to, live |-> TRUE, st |-> "sent", idx |-> 0]

\* the receivers of the RPCs sent so far are dropped (the Receiver of
\* client.rs 100 and the select_idx of client.rs 130 go out of scope): an RPC
\* still on its way stays on its way and what it is answered reaches nobody;
\* a handler still awaiting its waiter answers nobody either, which leaves
\* the replica as its timeout would (its Sender stays in waiting_channels)
Orphan(S) == {[x EXCEPT !.live = FALSE] : x \in {y \in S : y.st = "sent"}}

\* Clerk::request (client.rs 150-168): to the cached leader when there is
\* one, else check_leader_and_send's probes to every server
RequestRpcs(ldr, args, op) ==
    IF ldr # NoLeader THEN {SendRpc(args, ldr, op)}
    ELSE {SendRpc(args, r, op) : r \in Servers}

RequestPc(ldr) == IF ldr # NoLeader THEN "try" ELSE "probe"

\* Clerk::get (client.rs 176-204) and Clerk::put_append (client.rs 210-236)
\* up to the first send
ClerkStart(type, key) ==
    /\ ckPc = "idle"
    /\ ckOps < MaxOps
    /\ LET id == NewId(uuid)
           args == IF type = "Get" THEN GetRequest(UuidAsBytes(id), key, "ck")
                   ELSE IntoRequest(type, key, <<ckOps + 1>>, "ck", UuidAsBytes(id))
       IN /\ uuid' = id
          /\ ckArgs' = args
          /\ ckOps' = ckOps + 1
          /\ rpcs' = rpcs \cup RequestRpcs(ckLeader, args, ckOps + 1)
          /\ ckPc' = RequestPc(ckLeader)
          /\ ckTries' = 1
    /\ UNCHANGED <<ckLeader, ckHist, smVars, raftVars, effects>>
    /\ lastReply' = NoReply
    /\ UNCHANGED <<killVars, timedOut>>

\* the call returns (client.rs 193-196, 223-226)
ClerkReturn(rep, base) ==
    /\ ckPc' = "idle"
    /\ ckHist' = Append(ckHist, [type |-> FromBytes(ckArgs).type,
                                 key |-> ckArgs.key,
                                 value |-> FromBytes(ckArgs).value,
                                 ret |-> rep.value])
    /\ rpcs' = Orphan(base)
    /\ UNCHANGED <<ckArgs, ckOps, uuid, ckTries>>

\* the loop of get / put_append goes round: request again
ClerkRetry(ldr, base) ==
    /\ ckTries < MaxTries
    /\ ckTries' = ckTries + 1
    /\ rpcs' = Orphan(base) \cup RequestRpcs(ldr, ckArgs, ckOps)
    /\ ckPc' = RequestPc(ldr)
    /\ UNCHANGED <<ckArgs, ckOps, ckHist, uuid>>

\* what the clerk does with the reply to RPC h (base: the RPCs left)
\*   try_send_to_current_leader (client.rs 92-119), then the match of the
\*   caller; check_leader_and_send (client.rs 121-148), then the same match
ClerkReact(h, rep, base) ==
    IF ~h.live
    THEN rpcs' = base /\ UNCHANGED clerkVars
    ELSE IF ckPc = "try"
    THEN IF ~IsLeaderReply(rep)
         THEN ckLeader' = NoLeader /\ ClerkRetry(NoLeader, base)
         ELSE /\ ckLeader' = ckLeader
              /\ IF EndsCall(rep) THEN ClerkReturn(rep, base)
                 ELSE ClerkRetry(ckLeader, base)
    ELSE IF IsLeaderReply(rep)
         THEN /\ ckLeader' = h.to
              /\ IF EndsCall(rep) THEN ClerkReturn(rep, base)
                 ELSE ClerkRetry(h.to, base)
         ELSE rpcs' = base /\ UNCHANGED clerkVars

\* recv_timeout elapses on the cached leader (client.rs 100-105)
ClerkTryTimeout ==
    /\ ckPc = "try"
    /\ ckLeader' = NoLeader
    /\ ClerkRetry(NoLeader, rpcs)
    /\ UNCHANGED <<smVars, raftVars, effects>>
    /\ lastReply' = NoReply
    /\ UNCHANGED <<killVars, timedOut>>

\* recv_timeout elapses on the probes: sleep, next round (client.rs 141-146)
ClerkProbeTimeout ==
    /\ ckPc = "probe"
    /\ ClerkRetry(NoLeader, rpcs)
    /\ UNCHANGED <<ckLeader, smVars, raftVars, effects>>
    /\ lastReply' = NoReply
    /\ UNCHANGED <<killVars, timedOut>>

\* labrpc fails an RPC that no handler took: the clerk receives Err(_)
RpcError(h) ==
    /\ h \in rpcs /\ h.st = "sent" /\ h.live
    /\ ClerkReact(h, TransportErr, rpcs \ {h})
    /\ UNCHANGED <<smVars, raftVars, effects>>
    /\ lastReply' = Replied("transport", h, 0, TransportErr)
    /\ UNCHANGED <<killVars, timedOut>>

(***************************************************************************)
(* The RPC handlers Node::do_get and Node::do_put_append (server.rs        *)
(* 620-695) with KvStateMachine::start (server.rs 468-500), on replica Me. *)
(***************************************************************************)
IsGet(h) == h.req.msg = "GetRequest"

\* the handler awaiting the waiter of index i, if any
WaitersAt(i) == {x \in rpcs : x.st = "wait" /\ x.to = Me /\ x.idx = i}


\* do_put_append's fast path (server.rs 660-666)
DoPutAppendDone(h) ==
    /\ h \in rpcs /\ h.st = "sent" /\ h.to = Me /\ ~IsGet(h)
    /\ killPc = "alive"
    /\ HasDone(last_command, h.req.client, BuildUuid(h.req.id))
    /\ lastReply' = Replied("fast", h, 0, ReplyOk(EmptyStr))
    /\ ClerkReact(h, ReplyOk(EmptyStr), rpcs \ {h})
    /\ UNCHANGED <<smVars, raftVars, effects>>
    /\ UNCHANGED <<killVars, timedOut>>

\* does the handler of h get as far as fsm.start?
Proposes(h) ==
    /\ h \in rpcs /\ h.st = "sent" /\ h.to = Me
    /\ killPc = "alive"
    /\ IsGet(h) \/ ~HasDone(last_command, h.req.client, BuildUuid(h.req.id))

\* raft.start returns Err(NotLeader) (server.rs 497, 629-634, 673-677)
StartNotLeader(h) ==
    /\ Proposes(h)
    /\ ~believes
    /\ lastReply' = Replied("notleader", h, 0, ReplyNotLeader)
    /\ ClerkReact(h, ReplyNotLeader, rpcs \ {h})
    /\ UNCHANGED <<smVars, raftVars, effects>>
    /\ UNCHANGED <<killVars, timedOut>>

\* raft.start returns another error (server.rs 498, 641-646, 683-687)
StartRaftError(h) ==
    /\ Proposes(h)
    /\ lastReply' = Replied("rafterr", h, 0, ReplyErr("Raft"))
    /\ ClerkReact(h, ReplyErr("Raft"), rpcs \ {h})
    /\ UNCHANGED <<smVars, raftVars, effects>>
    /\ UNCHANGED <<killVars, timedOut>>

\* raft.start returns Ok((idx, term)): the waiter is inserted at idx, and a
\* Sender already there is dropped, which its receiver sees as an error
\* (server.rs 472-475; 649-654, 690-694 for the receiver)
StartOk(h) ==
    /\ Proposes(h)
    /\ believes
    /\ Len(rlog) < MaxLog
    /\ LET idx == Len(rlog) + 1
           old == WaitersAt(idx)
           base == (rpcs \ ({h} \cup old)) \cup {[h EXCEPT !.st = "wait", !.idx = idx]}
       IN /\ rlog' = Append(rlog, h.req)
          /\ waiting_channels' = waiting_channels \cup {idx}
          /\ IF old = {}
             THEN rpcs' = base /\ UNCHANGED clerkVars /\ lastReply' = NoReply
             ELSE LET o == CHOOSE x \in old : TRUE
                  IN /\ lastReply' = Replied("overwritten", o, idx,
                                              HandlerReply("canceled", NoReply))
                     /\ ClerkReact(o, HandlerReply("canceled", NoReply), base)
    /\ UNCHANGED <<state, last_command, last_index, clog, commitIndex, believes, effects>>
    /\ UNCHANGED <<killVars, timedOut>>

\* timeout_fut wins the select (server.rs 580-586, 627, 671)
HandlerTimeout(h) ==
    /\ h \in rpcs /\ h.st = "wait"
    /\ lastReply' = Replied("timeout", h, h.idx, HandlerReply("timer", NoReply))
    /\ ClerkReact(h, HandlerReply("timer", NoReply), rpcs \ {h})
    /\ UNCHANGED <<smVars, raftVars, effects>>
    /\ UNCHANGED killVars
    /\ timedOut' = IF IsGet(h) \/ h.to # Me THEN timedOut
                   ELSE {<<h.idx, h.req.client, BuildUuid(h.req.id)>>}

(***************************************************************************)
(* KvStateMachine::handle_message (server.rs 436-461) for the committed    *)
(* entry of index m: notify_at, then handle_command for a mutation, then   *)
(* the store of last_index.                                                *)
(***************************************************************************)
Bump(eff, id) == MapPut(eff, id, MapGetOr(eff, id, 0) + 1)

\* notify_at (server.rs 285-308) and the handler that its send wakes
NotifyAt(m, cmd) ==
    LET ws == WaitersAt(m)
    IN /\ waiting_channels' = waiting_channels \ {m}
       /\ IF m \in waiting_channels /\ ws # {}
          THEN LET h == CHOOSE x \in ws : TRUE
                   resp == NotifyResponse(state, cmd, m)
                   rep == HandlerReply("rx",
                              ReplyOfResult(StartResult(resp, BuildUuid(h.req.id)),
                                            resp, IsGet(h)))
               IN /\ lastReply' = Replied("waiter", h, m, rep)
                  /\ ClerkReact(h, rep, rpcs \ {h})
          ELSE UNCHANGED <<rpcs, clerkVars>> /\ lastReply' = NoReply

HandleMessage(m) ==
    LET cmd == FromBytes(clog[m])
        dup == Replicated(last_command, cmd)
    IN /\ NotifyAt(m, cmd)
       /\ IF IsReadonly(cmd)
          THEN UNCHANGED <<state, last_command, effects>>
          ELSE /\ last_command' = HandleCommandHistory(last_command, cmd)
               /\ state' = IF dup THEN state ELSE HandleCommandState(state, cmd)
               /\ effects' = IF dup THEN effects ELSE Bump(effects, cmd.id)
       /\ last_index' = m

(***************************************************************************)
(* The apply loop (server.rs 394-425).  It hands handle_message the        *)
(* committed entries in index order, each once: from apply_ch, where a     *)
(* message of an index already handled is skipped, and from                *)
(* try_get_log_between up to raft.commit_index().  Either way the next     *)
(* entry handled is last_index + 1, once it is committed.                  *)
(***************************************************************************)
ApplyNext ==
    /\ last_index < commitIndex
    /\ HandleMessage(last_index + 1)
    /\ UNCHANGED raftVars
    /\ UNCHANGED <<killVars, timedOut>>

(***************************************************************************)
(* Raft, by its contract.  While Me believes it leads, raft.start appends  *)
(* to its log; its entries commit in order as long as its log holds every  *)
(* committed entry; the peer commits entries of its own, after which Me    *)
(* must take over the committed log, and learns that it does not lead,     *)
(* before it can lead again.  A committed entry never changes.             *)
(***************************************************************************)
IsPrefix(s, t) == Len(s) <= Len(t) /\ SubSeq(t, 1, Len(s)) = s

RaftElect ==
    /\ killPc = "alive"
    /\ ~believes
    /\ IsPrefix(clog, rlog)
    /\ believes' = TRUE
    /\ UNCHANGED <<smVars, rlog, clog, commitIndex, rpcs, clerkVars, effects>>
    /\ lastReply' = NoReply
    /\ UNCHANGED <<killVars, timedOut>>

RaftCommit ==
    /\ killPc = "alive"
    /\ believes
    /\ IsPrefix(clog, rlog)
    /\ Len(rlog) > Len(clog)
    /\ clog' = Append(clog, rlog[Len(clog) + 1])
    /\ commitIndex' = Len(clog) + 1
    /\ UNCHANGED <<smVars, rlog, believes, rpcs, clerkVars, effects>>
    /\ lastReply' = NoReply
    /\ UNCHANGED <<killVars, timedOut>>

\* Me follows the peer: its log becomes the committed log
RaftFollow ==
    /\ killPc = "alive"
    /\ rlog # clog \/ believes \/ commitIndex # Len(clog)
    /\ rlog' = clog
    /\ believes' = FALSE
    /\ commitIndex' = Len(clog)
    /\ UNCHANGED <<smVars, clog, rpcs, clerkVars, effects>>
    /\ lastReply' = NoReply
    /\ UNCHANGED <<killVars, timedOut>>

(***************************************************************************)
(* The peer.  It runs the same KvStateMachine on the same committed log;   *)
(* it takes an RPC when it has handled every committed entry, so its       *)
(* state then is that of handling the committed log from the start.        *)
(***************************************************************************)
RECURSIVE LcOf(_), KvOf(_)
\* last_command after handle_command of each mutation of log, in order
LcOf(log) ==
    IF log = << >> THEN EmptyMap
    ELSE LET n == Len(log)
             cmd == FromBytes(log[n])
             before == LcOf(SubSeq(log, 1, n - 1))
         IN IF IsReadonly(cmd) THEN before
            ELSE HandleCommandHistory(before, cmd)

\* state after the same
KvOf(log) ==
    IF log = << >> THEN EmptyMap
    ELSE LET n == Len(log)
             cmd == FromBytes(log[n])
             front == SubSeq(log, 1, n - 1)
         IN IF IsReadonly(cmd) \/ Replicated(LcOf(front), cmd)
            THEN KvOf(front)
            ELSE HandleCommandState(KvOf(front), cmd)

\* the peer's do_put_append takes the fast path
PeerDone(h) ==
    /\ h \in rpcs /\ h.st = "sent" /\ h.to = Peer /\ ~IsGet(h) /\ h.live
    /\ HasDone(LcOf(clog), h.req.client, BuildUuid(h.req.id))
    /\ lastReply' = Replied("fast", h, 0, ReplyOk(EmptyStr))
    /\ ClerkReact(h, ReplyOk(EmptyStr), rpcs \ {h})
    /\ UNCHANGED <<smVars, raftVars, effects>>
    /\ UNCHANGED <<killVars, timedOut>>

\* the peer does not lead
PeerNotLeader(h) ==
    /\ h \in rpcs /\ h.st = "sent" /\ h.to = Peer /\ h.live
    /\ lastReply' = Replied("notleader", h, 0, ReplyNotLeader)
    /\ ClerkReact(h, ReplyNotLeader, rpcs \ {h})
    /\ UNCHANGED <<smVars, raftVars, effects>>
    /\ UNCHANGED <<killVars, timedOut>>

\* the peer leads: it proposes the command, the entry commits, the peer
\* handles it and its handler replies
PeerServe(h) ==
    /\ h \in rpcs /\ h.st = "sent" /\ h.to = Peer
    /\ Len(clog) < MaxLog
    /\ IsGet(h) \/ ~HasDone(LcOf(clog), h.req.client, BuildUuid(h.req.id))
    /\ LET idx == Len(clog) + 1
           resp == NotifyResponse(KvOf(clog), FromBytes(h.req), idx)
           rep == ReplyOfResult(StartResult(resp, BuildUuid(h.req.id)), resp, IsGet(h))
       IN /\ clog' = Append(clog, h.req)
          /\ lastReply' = Replied("waiter", h, idx, rep)
          /\ ClerkReact(h, rep, rpcs \ {h})
    /\ UNCHANGED <<smVars, rlog, commitIndex, believes, effects>>
    /\ UNCHANGED <<killVars, timedOut>>

\* the peer proposed the command and its handler's timer fired; the entry
\* may still commit
PeerTimeout(h) ==
    /\ h \in rpcs /\ h.st = "sent" /\ h.to = Peer /\ h.live
    /\ lastReply' = Replied("timeout", h, 0, ReplyErr("Timeout"))
    /\ ClerkReact(h, ReplyErr("Timeout"), (rpcs \ {h}) \cup Orphan({h}))
    /\ UNCHANGED <<smVars, raftVars, effects>>
    /\ UNCHANGED <<killVars, timedOut>>

(***************************************************************************)
(* The whole system: one clerk, replica Me and its peer.                   *)
(***************************************************************************)
Next ==
    \/ \E t \in {"Get", "Put", "Append"}, k \in Keys : ClerkStart(t, k)
    \/ ClerkTryTimeout
    \/ ClerkProbeTimeout
    \/ \E h \in rpcs : RpcError(h)
    \/ \E h \in rpcs : DoPutAppendDone(h)
    \/ \E h \in rpcs : StartNotLeader(h)
    \/ \E h \in rpcs : StartRaftError(h)
    \/ \E h \in rpcs : StartOk(h)
    \/ \E h \in rpcs : HandlerTimeout(h)
    \/ ApplyNext
    \/ RaftElect
    \/ RaftCommit
    \/ RaftFollow
    \/ \E h \in rpcs : PeerDone(h)
    \/ \E h \in rpcs : PeerNotLeader(h)
    \/ \E h \in rpcs : PeerServe(h)
    \/ \E h \in rpcs : PeerTimeout(h)

Spec == Init /\ [][Next]_vars

(***************************************************************************)
(* The snapshot file: make_snapshot (server.rs 339-366) and                *)
(* handle_virtual_command (server.rs 313-336).  A blob is modelled by the  *)
(* VirtualCommand it encodes: the pairs of a map, a Uuid as its bytes.     *)
(***************************************************************************)
Pairs(m) == {<<k, m[k]>> : k \in DOMAIN m}

\* for (k, v) in pairs { m.insert(k, v) }
InsertAll(m, pairs) ==
    [k \in (DOMAIN m) \cup {p[1] : p \in pairs} |->
        IF \E p \in pairs : p[1] = k
        THEN (CHOOSE p \in pairs : p[1] = k)[2]
        ELSE m[k]]

EncodeIkv(kv, idx) == [command |-> "Ikv", kvs |-> Pairs(kv), last_index |-> idx]

EncodeIlc(lc) ==
    [command |-> "Ilc", cmd |-> {<<p[1], UuidAsBytes(p[2])>> : p \in Pairs(lc)}]

\* SnapshotFile { commands: vec![last_command_u8, state_u8] }
SnapshotFile(kv, idx, lc) == <<EncodeIlc(lc), EncodeIkv(kv, idx)>>

InstallLc(lc, blob) == InsertAll(lc, {<<p[1], BuildUuid(p[2])>> : p \in blob.cmd})

InstallKv(kv, blob) == InsertAll(kv, blob.kvs)

\* self.last_index.store(key_values.last_index as usize, ..)
InstalledIndexZero(blob) == 0

InstalledIndex(blob) == blob.last_index

(***************************************************************************)
(* The apply loop's worker step by step (server.rs 394-425 and 436-461):   *)
(* it takes the next committed entry, and in handle_message notifies the   *)
(* waiter, runs the two critical sections of handle_command and stores     *)
(* last_index.  Node::kill runs beside it.                                 *)
(***************************************************************************)
\* shutdown holds the waiting_channels lock from its clear on, and
\* make_snapshot the state lock from its first read on
WaitersLocked == killPc \in {"cleared", "loaded", "snapstate"}
StateLocked == killPc = "snapstate"
\* the worker runs until it reads the sentinel
Running == killPc \in {"alive", "noraft"}

ApplyBegin ==
    /\ Running
    /\ applyPc = "idle"
    /\ pending.blobs = << >>
    /\ last_index < commitIndex
    /\ applyPc' = "notify"
    /\ applyM' = last_index + 1
    /\ lastReply' = NoReply
    /\ UNCHANGED <<smVars, raftVars, rpcs, clerkVars, effects,
                   killPc, kills, snap, persisted, pending>>
    /\ UNCHANGED <<lockVars, streamVars, timedOut>>

ApplyNotify ==
    /\ applyPc = "notify"
    /\ ~WaitersLocked /\ killPc # "dead"
    /\ NotifyAt(applyM, FromBytes(clog[applyM]))
    /\ applyPc' = IF IsReadonly(FromBytes(clog[applyM])) THEN "store" ELSE "history"
    /\ UNCHANGED <<state, last_command, last_index, raftVars, effects, applyM,
                   killPc, kills, snap, persisted, pending>>
    /\ UNCHANGED <<lockVars, streamVars, timedOut>>

ApplyHistory ==
    /\ applyPc = "history"
    /\ killPc # "dead"
    /\ last_command' = HandleCommandHistory(last_command, FromBytes(clog[applyM]))
    /\ applyPc' = IF Replicated(last_command, FromBytes(clog[applyM]))
                  THEN "store" ELSE "state"
    /\ lastReply' = NoReply
    /\ UNCHANGED <<state, last_index, waiting_channels, raftVars, rpcs, clerkVars,
                   effects, applyM, killPc, kills, snap, persisted, pending>>
    /\ UNCHANGED <<lockVars, streamVars, timedOut>>

ApplyState ==
    /\ applyPc = "state"
    /\ ~StateLocked /\ killPc # "dead"
    /\ state' = HandleCommandState(state, FromBytes(clog[applyM]))
    /\ effects' = Bump(effects, FromBytes(clog[applyM]).id)
    /\ applyPc' = "store"
    /\ lastReply' = NoReply
    /\ UNCHANGED <<last_command, last_index, waiting_channels, raftVars, rpcs,
                   clerkVars, applyM, killPc, kills, snap, persisted, pending>>
    /\ UNCHANGED <<lockVars, streamVars, timedOut>>

ApplyStore ==
    /\ applyPc = "store"
    /\ killPc # "dead"
    /\ last_index' = applyM
    /\ applyPc' = "idle"
    /\ lastReply' = NoReply
    /\ UNCHANGED <<state, last_command, waiting_channels, raftVars, rpcs,
                   clerkVars, effects, applyM, killPc, kills, snap, persisted, pending>>
    /\ UNCHANGED <<lockVars, streamVars, timedOut>>

\* the snapshot the worker takes when Raft's log has grown (server.rs 416-421)
ApplySnapshot ==
    /\ Running
    /\ applyPc = "idle"
    /\ IF persisted.made THEN persisted.idx < last_index ELSE last_index > 0
    /\ persisted' = [made |-> TRUE,
                     file |-> SnapshotFile(state, last_index, last_command),
                     idx |-> last_index, eff |-> effects]
    /\ lastReply' = NoReply
    /\ UNCHANGED <<smVars, raftVars, rpcs, clerkVars, effects, applyPc, applyM,
                   killPc, kills, snap, pending>>
    /\ UNCHANGED <<lockVars, streamVars, timedOut>>

\* a blob of a snapshot comes off the apply stream (server.rs 422-424)
ApplyVirtual ==
    /\ Running
    /\ applyPc = "idle"
    /\ pending.blobs # << >>
    /\ LET blob == Head(pending.blobs)
       IN IF blob.command = "Ilc"
          THEN /\ last_command' = InstallLc(last_command, blob)
               /\ UNCHANGED <<state, last_index, effects>>
          ELSE /\ state' = InstallKv(state, blob)
               /\ last_index' = InstalledIndex(blob)
               /\ effects' = pending.eff
               /\ UNCHANGED last_command
    /\ pending' = IF Len(pending.blobs) = 1 THEN NoPending
                  ELSE [pending EXCEPT !.blobs = Tail(pending.blobs)]
    /\ lastReply' = NoReply
    /\ UNCHANGED <<waiting_channels, raftVars, rpcs, clerkVars, applyPc, applyM,
                   killPc, kills, snap, persisted>>
    /\ UNCHANGED <<lockVars, streamVars, timedOut>>

(***************************************************************************)
(* Node::kill (server.rs 598-603): rf.kill(), then fsm.shutdown()          *)
(* (server.rs 263-281) with make_snapshot (server.rs 339-366).  The        *)
(* handlers take the server lock that kill holds, so none starts during    *)
(* it.  Afterwards the tester starts the replica again on the same         *)
(* persister: KvServer::new (server.rs 525-549).                           *)
(***************************************************************************)
KillRaft ==
    /\ killPc = "alive"
    /\ kills < MaxKills
    /\ killPc' = "noraft"
    /\ kills' = kills + 1
    /\ believes' = FALSE
    /\ lastReply' = NoReply
    /\ UNCHANGED <<smVars, rlog, clog, commitIndex, rpcs, clerkVars, effects,
                   applyPc, applyM, snap, persisted, pending>>
    /\ UNCHANGED <<lockVars, streamVars, timedOut>>

\* the sentinel is sent and every Sender is dropped: the handlers that
\* awaited one reply that the FSM cancelled (server.rs 649-654, 690-694),
\* which the clerk hears from the one whose reply it still awaits
ShutdownClear ==
    /\ killPc = "noraft"
    /\ killPc' = "cleared"
    /\ waiting_channels' = {}
    /\ LET ws == {x \in rpcs : x.st = "wait" /\ x.to = Me}
           heard == {x \in ws : x.live}
       IN IF heard = {}
          THEN rpcs' = rpcs \ ws /\ UNCHANGED clerkVars /\ lastReply' = NoReply
          ELSE LET h == CHOOSE x \in heard : TRUE
               IN /\ lastReply' = Replied("closed", h, h.idx,
                                           HandlerReply("canceled", NoReply))
                  /\ ClerkReact(h, HandlerReply("canceled", NoReply), rpcs \ ws)
    /\ UNCHANGED <<state, last_command, last_index, raftVars, effects,
                   applyPc, applyM, kills, snap, persisted, pending>>
    /\ UNCHANGED <<lockVars, streamVars, timedOut>>

\* let last_index = self.last_index.load(..) (server.rs 279)
ShutdownLoad ==
    /\ killPc = "cleared"
    /\ killPc' = "loaded"
    /\ snap' = [made |-> FALSE, upto |-> last_index]
    /\ lastReply' = NoReply
    /\ UNCHANGED <<smVars, raftVars, rpcs, clerkVars, effects,
                   applyPc, applyM, kills, persisted, pending>>
    /\ UNCHANGED <<lockVars, streamVars, timedOut>>

\* make_snapshot locks state and encodes it with last_index (server.rs 341-349)
SnapshotState ==
    /\ killPc = "loaded"
    /\ killPc' = "snapstate"
    /\ snap' = [made |-> FALSE, upto |-> snap.upto,
                kv |-> EncodeIkv(state, last_index), eff |-> effects]
    /\ lastReply' = NoReply
    /\ UNCHANGED <<smVars, raftVars, rpcs, clerkVars, effects,
                   applyPc, applyM, kills, persisted, pending>>
    /\ UNCHANGED <<lockVars, streamVars, timedOut>>

\* make_snapshot locks last_command and encodes it (server.rs 351-365);
\* raft.take_snapshot stores the file (server.rs 280)
SnapshotHistory ==
    /\ killPc = "snapstate"
    /\ killPc' = "dead"
    /\ persisted' = [made |-> TRUE, file |-> <<EncodeIlc(last_command), snap.kv>>,
                     idx |-> snap.upto, eff |-> snap.eff]
    /\ snap' = NoSnapshot
    /\ lastReply' = NoReply
    /\ UNCHANGED <<smVars, raftVars, rpcs, clerkVars, effects,
                   applyPc, applyM, kills, pending>>
    /\ UNCHANGED <<lockVars, streamVars, timedOut>>

\* a new KvServer on the persister: an empty KvStateMachine, and a Raft that
\* yields the stored snapshot, then the entries after it as they commit
Restart ==
    /\ killPc = "dead"
    /\ persisted.made
    /\ killPc' = "alive"
    /\ state' = EmptyMap
    /\ last_command' = EmptyMap
    /\ last_index' = 0
    /\ waiting_channels' = {}
    /\ effects' = EmptyMap
    /\ applyPc' = "idle"
    /\ applyM' = 0
    /\ pending' = [blobs |-> persisted.file, eff |-> persisted.eff]
    /\ commitIndex' = persisted.idx
    /\ believes' = FALSE
    /\ lastReply' = NoReply
    /\ UNCHANGED <<rlog, clog, rpcs, clerkVars, kills, snap, persisted>>
    /\ UNCHANGED <<lockVars, streamVars, timedOut>>

\* server.rf.kill() has been called (server.rs 601)
RaftStopped == killPc \in {"noraft", "cleared", "loaded", "snapstate", "dead"}

\* a step of KvStateMachine::shutdown (server.rs 263-281): the sentinel and
\* the clear, the load of last_index, make_snapshot and take_snapshot
ShutdownStep ==
    \/ killPc = "noraft" /\ killPc' = "cleared"
    \/ killPc = "cleared" /\ killPc' = "loaded"
    \/ killPc = "loaded" /\ killPc' = "snapstate"
    \/ killPc = "snapstate" /\ killPc' = "dead"

\* the mutations that make the KV map after handling log from the start
RECURSIVE EffOf(_)
EffOf(log) ==
    IF log = << >> THEN EmptyMap
    ELSE LET n == Len(log)
             cmd == FromBytes(log[n])
             front == SubSeq(log, 1, n - 1)
         IN IF IsReadonly(cmd) \/ Replicated(LcOf(front), cmd)
            THEN EffOf(front)
            ELSE Bump(EffOf(front), cmd.id)

\* Raft, by its contract: the replica has handled all that its Raft yielded
\* and is behind the committed log; the leader sends the snapshot it made
\* having handled the committed log, which takes the place of the entries
RaftInstallSnapshot ==
    /\ killPc = "alive"
    /\ applyPc = "idle"
    /\ pending.blobs = << >>
    /\ last_index = commitIndex
    /\ commitIndex < Len(clog)
    /\ pending' = [blobs |-> SnapshotFile(KvOf(clog), Len(clog), LcOf(clog)),
                   eff |-> EffOf(clog)]
    /\ commitIndex' = Len(clog)
    /\ rlog' = clog
    /\ believes' = FALSE
    /\ lastReply' = NoReply
    /\ UNCHANGED <<smVars, clog, rpcs, clerkVars, effects, applyPc, applyM,
                   killPc, kills, snap, persisted>>
    /\ UNCHANGED <<lockVars, streamVars, timedOut>>

(***************************************************************************)
(* The replica with its worker and its kill, serving the clerk alone: the  *)
(* peer answers that it does not lead.                                     *)
(***************************************************************************)
NextKill ==
    \/ \E t \in {"Get", "Append"}, k \in Keys : ClerkStart(t, k)
    \/ ClerkTryTimeout
    \/ ClerkProbeTimeout
    \/ \E h \in rpcs : RpcError(h)
    \/ \E h \in rpcs : DoPutAppendDone(h)
    \/ \E h \in rpcs : StartNotLeader(h)
    \/ \E h \in rpcs : StartOk(h)
    \/ \E h \in rpcs : HandlerTimeout(h)
    \/ \E h \in rpcs : PeerNotLeader(h)
    \/ ApplyBegin
    \/ ApplyNotify
    \/ ApplyHistory
    \/ ApplyState
    \/ ApplyStore
    \/ ApplySnapshot
    \/ ApplyVirtual
    \/ RaftElect
    \/ RaftCommit
    \/ RaftFollow
    \/ RaftInstallSnapshot
    \/ KillRaft
    \/ ShutdownClear
    \/ ShutdownLoad
    \/ SnapshotState
    \/ SnapshotHistory
    \/ Restart

SpecKill == Init /\ [][NextKill]_vars

(***************************************************************************)
(* make_snapshot and the install of its file by themselves: the state of   *)
(* a KvStateMachine is any of a few maps, tables and indices; a snapshot   *)
(* is made of it, and a replica is started on that snapshot.               *)
(***************************************************************************)
SnapValues == {<<1>>, <<1, 2>>}
SnapIds == {1, 2, 300}
SnapKeys == {"k", "m"}
SnapClients == {"ck", "cl"}

MapsOver(D, R) == UNION {[d -> R] : d \in SUBSET D}

InitSnap ==
    /\ state = EmptyMap
    /\ last_command = EmptyMap
    /\ last_index = 0
    /\ waiting_channels = {}
    /\ rlog = << >>
    /\ clog = << >>
    /\ commitIndex = 0
    /\ believes = FALSE
    /\ rpcs = {}
    /\ ckPc = "idle"
    /\ ckArgs = NoArgs
    /\ ckLeader = NoLeader
    /\ ckOps = 0
    /\ ckHist = << >>
    /\ uuid = 0
    /\ ckTries = 0
    /\ effects = EmptyMap
    /\ lastReply = NoReply
    /\ applyPc = "idle"
    /\ applyM = 0
    /\ killPc = "dead"
    /\ kills = 0
    /\ \E kv \in MapsOver(SnapKeys, SnapValues), lc \in MapsOver(SnapClients, SnapIds),
          idx \in 0..MaxLog :
           snap = [made |-> TRUE, kv |-> kv, lc |-> lc, idx |-> idx]
    /\ persisted = NoSnapshot
    /\ pending = NoPending
    /\ timedOut = {}
    /\ streamAt = 1
    /\ catchTo = 0
    /\ tpc = EmptyMap
    /\ owner = EmptyMap

\* make_snapshot in the state snap, handed to raft.take_snapshot
SnapTake ==
    /\ snap.made
    /\ ~persisted.made
    /\ persisted' = [made |-> TRUE, file |-> SnapshotFile(snap.kv, snap.idx, snap.lc),
                     idx |-> snap.idx, eff |-> EmptyMap]
    /\ lastReply' = NoReply
    /\ UNCHANGED <<smVars, raftVars, rpcs, clerkVars, effects, applyPc, applyM,
                   killPc, kills, snap, pending>>
    /\ UNCHANGED <<lockVars, streamVars, timedOut>>

NextSnap ==
    \/ SnapTake
    \/ Restart
    \/ ApplyVirtual

SpecSnap == InitSnap /\ [][NextSnap]_vars

\* C7: the two blobs that make_snapshot produces in a state, installed in
\* file order in a freshly started replica, leave it with the KV map, the
\* last-request table and the last applied index of that state.
C7_SnapshotRoundTrip ==
    (snap.made /\ persisted.made /\ killPc = "alive" /\ pending = NoPending) =>
        /\ state = snap.kv
        /\ last_command = snap.lc
        /\ last_index = snap.idx

\* both blobs of the snapshot of a state with two keys, two clients, an id
\* of two bytes and an index are installed
C7_Witness ==
    /\ snap.made /\ persisted.made /\ killPc = "alive" /\ pending = NoPending
    /\ DOMAIN snap.kv = SnapKeys /\ DOMAIN snap.lc = SnapClients
    /\ snap.lc["ck"] = 300 /\ snap.idx = MaxLog
    /\ state = snap.kv /\ last_command = snap.lc /\ last_index = snap.idx

(***************************************************************************)
(* A stable leader: Me leads from the start and goes on leading, it takes  *)
(* every RPC sent to it, and its entries commit and are handled before a   *)
(* handler's timeout_fut fires and before the clerk's recv_timeout on that *)
(* RPC elapses.  The peer follows; it may be unreachable.  The clerk comes *)
(* with any cached leader.                                                 *)
(***************************************************************************)
InitLive ==
    /\ state = EmptyMap
    /\ last_command = EmptyMap
    /\ last_index = 0
    /\ waiting_channels = {}
    /\ rlog = << >>
    /\ clog = << >>
    /\ commitIndex = 0
    /\ believes = TRUE
    /\ rpcs = {}
    /\ ckPc = "idle"
    /\ ckArgs = NoArgs
    /\ ckLeader \in {NoLeader} \cup Servers
    /\ ckOps = 0
    /\ ckHist = << >>
    /\ uuid = 0
    /\ ckTries = 0
    /\ effects = EmptyMap
    /\ lastReply = NoReply
    /\ applyPc = "idle"
    /\ applyM = 0
    /\ killPc = "alive"
    /\ kills = 0
    /\ snap = NoSnapshot
    /\ persisted = NoSnapshot
    /\ pending = NoPending
    /\ timedOut = {}
    /\ streamAt = 1
    /\ catchTo = 0
    /\ tpc = EmptyMap
    /\ owner = EmptyMap

\* recv_timeout elapses on a cached leader that is not the leader
TryTimeoutOnFollower ==
    /\ ckLeader # Me
    /\ ClerkTryTimeout

NextLive ==
    \/ \E t \in {"Get", "Put", "Append"}, k \in Keys : ClerkStart(t, k)
    \/ TryTimeoutOnFollower
    \/ \E h \in rpcs : h.to = Peer /\ RpcError(h)
    \/ \E h \in rpcs : StartOk(h)
    \/ RaftCommit
    \/ ApplyNext
    \/ \E h \in rpcs : PeerDone(h)
    \/ \E h \in rpcs : PeerNotLeader(h)

SpecLive ==
    /\ InitLive
    /\ [][NextLive]_vars
    /\ WF_vars(TryTimeoutOnFollower)
    /\ WF_vars(\E h \in rpcs : StartOk(h))
    /\ WF_vars(RaftCommit)
    /\ WF_vars(ApplyNext)

IsSuccess(rep) ==
    ~IsTransportErr(rep) /\ ~rep.wrong_leader /\ rep.err = "" /\ rep.err_code = 0

\* the apply stream of Me carries the committed entries
ApplyStreamCommitted ==
    /\ commitIndex <= Len(clog) /\ commitIndex <= Len(rlog)
    /\ SubSeq(rlog, 1, commitIndex) = SubSeq(clog, 1, commitIndex)
    /\ last_index <= commitIndex

\* C1: for every (client, request_id), at most one Put/Append effect is
\* performed on the replica's KV map, however often the request is sent,
\* proposed, committed and applied.
C1_AtMostOnce == \A id \in DOMAIN effects : effects[id] <= 1

\* C4: a handler that proposed a command and registered a waiter at the
\* returned index replies success only if the command applied at that index
\* carries the request id the handler proposed.
C4_SuccessOnlyForOwnCommand ==
    (lastReply.kind = "waiter" /\ lastReply.to = Me /\ IsSuccess(lastReply.rep))
        => FromBytes(clog[lastReply.idx]).id = lastReply.id

\* a waiter is answered with success
C4_Witness ==
    /\ lastReply.kind = "waiter" /\ lastReply.to = Me
    /\ IsSuccess(lastReply.rep)
    /\ FromBytes(clog[lastReply.idx]).id = lastReply.id

\* a waiter is answered when another request's command is applied at its index
C4_WitnessForeign ==
    /\ lastReply.kind = "waiter" /\ lastReply.to = Me
    /\ FromBytes(clog[lastReply.idx]).id # lastReply.id
    /\ lastReply.rep.err_code = KVERR_FAIL_TO_COMMIT

\* C8: all RPCs sent for one call of get / put / append carry the same
\* request id and client name, on the cached-leader path and on every probe
\* of every round; a fresh id is generated only when a new call starts.
C8_SameIdPerCall ==
    [][/\ \A h \in rpcs', g \in rpcs' :
              h.call = g.call => h.req.id = g.req.id /\ h.req.client = g.req.client
       /\ \A h \in rpcs' :
              h.call = ckOps' => h.req.id = ckArgs'.id /\ h.req.client = ckArgs'.client
       /\ uuid' # uuid => ckOps' = ckOps + 1 /\ ckPc = "idle"]_vars

\* a call is in a retry round, with RPCs of an earlier round still about
C8_Witness ==
    /\ ckTries > 1
    /\ \E h \in rpcs, g \in rpcs : h.call = ckOps /\ g.call = ckOps /\ h.live /\ ~g.live
    /\ ckOps > 1

\* C9: a call of get / put / append returns only on a reply with
\* wrong_leader = false and an empty err; a wrong_leader reply, a transport
\* error, a timeout or a reply with an err never ends the call, and a
\* wrong_leader reply changes nothing of the clerk but cached_leader, which
\* it can only clear.
C9_ReturnOnlyOnSuccess ==
    [][/\ (ckPc # "idle" /\ ckPc' = "idle") =>
              /\ lastReply'.kind \notin {"none", "transport"}
              /\ lastReply'.live
              /\ ~lastReply'.rep.wrong_leader /\ lastReply'.rep.err = ""
              /\ Len(ckHist') = Len(ckHist) + 1
              /\ ckHist'[Len(ckHist')].ret = lastReply'.rep.value
       /\ (lastReply'.kind = "notleader" /\ lastReply'.live) =>
              /\ ckPc' # "idle"
              /\ UNCHANGED <<ckArgs, ckOps, ckHist, uuid>>
              /\ ckLeader' \in {ckLeader, NoLeader}]_vars

\* the clerk was answered with an err by the server it then caches as the
\* leader, and is in the next attempt of the same call
C9_Witness ==
    /\ lastReply.kind \in {"timeout", "closed", "overwritten", "rafterr"} \/
       (lastReply.kind = "waiter" /\ lastReply.rep.err # "")
    /\ lastReply.live
    /\ ckPc = "try" /\ ckLeader = lastReply.to
    /\ ckTries > 1

(***************************************************************************)
(* Properties of the replica with its worker and its kill (SpecKill).      *)
(***************************************************************************)
\* the KV semantics of one key, call after call
RECURSIVE SeqValue(_, _)
SeqValue(hist, key) ==
    IF hist = << >> THEN EmptyStr
    ELSE LET n == Len(hist)
             op == hist[n]
             before == SeqValue(SubSeq(hist, 1, n - 1), key)
         IN IF op.key # key THEN before
            ELSE CASE op.type = "Put" -> op.value
                   [] op.type = "Append" -> before \o op.value
                   [] OTHER -> before

\* C2: the results of the completed calls are those of a sequential history
\* that respects real-time order.  The one clerk's calls do not overlap, so
\* that history is the calls in the order made: every Get returns what the
\* mutations that returned before it left in its key.
C2_Linearizable ==
    \A i \in 1..Len(ckHist) :
        ckHist[i].type = "Get" =>
            ckHist[i].ret = SeqValue(SubSeq(ckHist, 1, i - 1), ckHist[i].key)

\* C3: when do_get replies success for a Get committed at index i, the value
\* is that of its key after exactly the mutations at indices below i, under
\* the dedupe rule, or the empty string.
C3_GetFreshness ==
    (/\ lastReply.kind = "waiter" /\ lastReply.to = Me
     /\ lastReply.type = "Get" /\ IsSuccess(lastReply.rep))
        => lastReply.rep.value =
               MapGetOr(KvOf(SubSeq(clog, 1, lastReply.idx - 1)), lastReply.key, EmptyStr)

C6_FastPathSound ==
    (lastReply.kind = "fast" /\ lastReply.to = Me) =>
        \E j \in 1..Len(clog) :
            /\ FromBytes(clog[j]).id = lastReply.id
            /\ FromBytes(clog[j]).client = lastReply.client
            /\ \/ MapGetOr(effects, lastReply.id, 0) >= 1
               \/ applyPc = "state" /\ applyM = j
               \/ pending.blobs # << >> /\ MapGetOr(pending.eff, lastReply.id, 0) >= 1

(***************************************************************************)
(* KvStateMachine::start (server.rs 468-500) step by step, against the     *)
(* worker step by step: raft.start returns the index, and the Sender is    *)
(* inserted at it afterwards, under the waiting_channels lock that         *)
(* notify_at takes too.  No kill, no snapshot.                             *)
(***************************************************************************)
\* self.raft.start(cmd) returns Ok((idx, _term)) (server.rs 471-472)
StartPropose(h) ==
    /\ Proposes(h)
    /\ believes
    /\ Len(rlog) < MaxLog
    /\ rlog' = Append(rlog, h.req)
    /\ rpcs' = (rpcs \ {h}) \cup {[h EXCEPT !.st = "started", !.idx = Len(rlog) + 1]}
    /\ lastReply' = NoReply
    /\ UNCHANGED <<smVars, clog, commitIndex, believes, clerkVars, effects>>
    /\ UNCHANGED <<killVars, timedOut>>

\* map.insert(idx, sx) (server.rs 473-475); the handler then awaits rx
StartInsert(h) ==
    /\ h \in rpcs /\ h.st = "started" /\ h.to = Me
    /\ LET old == WaitersAt(h.idx)
           base == (rpcs \ ({h} \cup old)) \cup {[h EXCEPT !.st = "wait"]}
       IN /\ waiting_channels' = waiting_channels \cup {h.idx}
          /\ IF old = {}
             THEN rpcs' = base /\ UNCHANGED clerkVars /\ lastReply' = NoReply
             ELSE LET o == CHOOSE x \in old : TRUE
                  IN /\ lastReply' = Replied("overwritten", o, h.idx,
                                              HandlerReply("canceled", NoReply))
                     /\ ClerkReact(o, HandlerReply("canceled", NoReply), base)
    /\ UNCHANGED <<state, last_command, last_index, raftVars, effects>>
    /\ UNCHANGED <<killVars, timedOut>>

NextRace ==
    \/ \E t \in {"Get", "Append"}, k \in Keys : ClerkStart(t, k)
    \/ ClerkTryTimeout
    \/ ClerkProbeTimeout
    \/ \E h \in rpcs : DoPutAppendDone(h)
    \/ \E h \in rpcs : StartNotLeader(h)
    \/ \E h \in rpcs : StartPropose(h)
    \/ \E h \in rpcs : StartInsert(h)
    \/ \E h \in rpcs : HandlerTimeout(h)
    \/ \E h \in rpcs : PeerNotLeader(h)
    \/ ApplyBegin
    \/ ApplyNotify
    \/ ApplyHistory
    \/ ApplyState
    \/ ApplyStore
    \/ RaftElect
    \/ RaftCommit

SpecRace == Init /\ [][NextRace]_vars

(***************************************************************************)
(* The worker on the apply stream (server.rs 394-415).  Raft sends each    *)
(* committed entry on apply_ch once, in index order; commit_index() is the *)
(* commit index, and try_get_log_between(a, b) the committed entries of    *)
(* indices a to b in order.                                                *)
(***************************************************************************)
AlreadyHandledNever(last, index) == FALSE

\* last_index >= message.command_index (server.rs 397-398)
AlreadyHandled(last, index) == last >= index

\* i.next() yields the next message; it is skipped or handle_message begins
\* (server.rs 395-402)
StreamRecv ==
    /\ applyPc = "idle"
    /\ streamAt <= commitIndex
    /\ streamAt' = streamAt + 1
    /\ applyM' = streamAt
    /\ applyPc' = IF AlreadyHandled(last_index, streamAt) THEN "idle" ELSE "notify"
    /\ lastReply' = NoReply
    /\ UNCHANGED <<smVars, raftVars, rpcs, clerkVars, effects, killPc, kills,
                   snap, persisted, pending, lockVars, catchTo, timedOut>>

\* the store of last_index that ends handle_message (server.rs 459-460)
StreamStore ==
    /\ applyPc = "store"
    /\ last_index' = applyM
    /\ applyPc' = IF catchTo = 0 THEN "commit" ELSE "loop"
    /\ lastReply' = NoReply
    /\ UNCHANGED <<state, last_command, waiting_channels, raftVars, rpcs,
                   clerkVars, effects, applyM, killPc, kills, snap, persisted,
                   pending, lockVars, streamVars, timedOut>>

\* raft.commit_index() and try_get_log_between (server.rs 404-410)
StreamCommitIndex ==
    /\ applyPc = "commit"
    /\ catchTo' = IF commitIndex > applyM THEN commitIndex ELSE 0
    /\ applyPc' = IF commitIndex > applyM THEN "loop" ELSE "idle"
    /\ lastReply' = NoReply
    /\ UNCHANGED <<smVars, raftVars, rpcs, clerkVars, effects, applyM, killPc,
                   kills, snap, persisted, pending, lockVars, streamAt, timedOut>>

NextInBatchSame(index) == index

\* the batch of try_get_log_between begins at message.command_index + 1 and
\* goes up index by index (server.rs 407-411)
NextInBatch(index) == index + 1

\* for msg in msgs: handle_message(&msg) (server.rs 411-413)
StreamLoop ==
    /\ applyPc = "loop"
    /\ IF applyM < catchTo
       THEN applyM' = NextInBatch(applyM) /\ applyPc' = "notify" /\ UNCHANGED catchTo
       ELSE applyPc' = "idle" /\ catchTo' = 0 /\ UNCHANGED applyM
    /\ lastReply' = NoReply
    /\ UNCHANGED <<smVars, raftVars, rpcs, clerkVars, effects, killPc, kills,
                   snap, persisted, pending, lockVars, streamAt, timedOut>>

NextStream ==
    \/ \E t \in {"Get", "Append"}, k \in Keys : ClerkStart(t, k)
    \/ ClerkTryTimeout
    \/ ClerkProbeTimeout
    \/ \E h \in rpcs : DoPutAppendDone(h)
    \/ \E h \in rpcs : StartNotLeader(h)
    \/ \E h \in rpcs : StartOk(h)
    \/ \E h \in rpcs : HandlerTimeout(h)
    \/ \E h \in rpcs : PeerNotLeader(h)
    \/ StreamRecv
    \/ ApplyNotify
    \/ ApplyHistory
    \/ ApplyState
    \/ StreamStore
    \/ StreamCommitIndex
    \/ StreamLoop
    \/ RaftElect
    \/ RaftCommit

SpecStream == Init /\ [][NextStream]_vars

(***************************************************************************)
(* The threads of one replica and its mutexes: Node.server, and the        *)
(* waiting_channels, state and last_command of the KvStateMachine.  Each   *)
(* thread runs its code, a sequence of instructions: lock and unlock of a  *)
(* mutex, a call into Raft, the wait of a handler on its waiter and the    *)
(* timer, the send of the sentinel, the worker's receive, and goto, a      *)
(* branch to one of some instructions.                                     *)
(***************************************************************************)
Threads == {"put", "get", "apply", "kill"}
Locks == {"server", "wc", "state", "lc"}
NoThread == "none"

Ins(op, arg) == [op |-> op, arg |-> arg]

\* Node::do_put_append (server.rs 657-695), with has_done (506-509) and
\* KvStateMachine::start (468-500)
DoPutAppendCode ==
    << Ins("lock", "server"),      \*  1: 658
       Ins("lock", "lc"),          \*  2: has_done, 507
       Ins("unlock", "lc"),        \*  3: 509
       Ins("goto", {5, 12}),       \*  4: 660, done or not
       Ins("raft", "start"),       \*  5: 667, 471
       Ins("goto", {7, 9}),        \*  6: Ok((idx, _)) or Err
       Ins("lock", "wc"),          \*  7: 473
       Ins("unlock", "wc"),        \*  8: 496
       Ins("unlock", "server"),    \*  9: 668
       Ins("await", "waiter"),     \* 10: 670-694
       Ins("goto", {1}),           \* 11: the reply; the next request
       Ins("unlock", "server"),    \* 12: 661-665, the fast path returns
       Ins("goto", {1}) >>

\* Node::do_get (server.rs 620-655), with KvStateMachine::start (468-500)
DoGetCode ==
    << Ins("lock", "server"),      \* 1: 621
       Ins("unlock", "server"),    \* 2: 623
       Ins("raft", "start"),       \* 3: 625, 471
       Ins("goto", {5, 7}),        \* 4: Ok((idx, _)) or Err
       Ins("lock", "wc"),          \* 5: 473
       Ins("unlock", "wc"),        \* 6: 496
       Ins("await", "waiter"),     \* 7: 626-654
       Ins("goto", {1}) >>

HandleMessageCodeKeepsHistory(b, next) ==
    << Ins("lock", "wc"),
       Ins("goto", {b + 2, b + 4}),
       Ins("lock", "state"),
       Ins("unlock", "state"),
       Ins("unlock", "wc"),
       Ins("goto", {b + 6, b + 11}),
       Ins("lock", "lc"),
       Ins("goto", {b + 8, b + 10}),
       Ins("lock", "state"),
       Ins("unlock", "state"),
       Ins("unlock", "lc"),
       Ins("goto", next) >>

\* handle_message (server.rs 436-461) with notify_at (285-308) and
\* handle_command (229-260), placed at instruction b, continuing at next
HandleMessageCode(b, next) ==
    << Ins("lock", "wc"),              \* b:    286
       Ins("goto", {b + 2, b + 4}),    \* b+1:  a Sender and a Get, or not
       Ins("lock", "state"),           \* b+2:  289
       Ins("unlock", "state"),         \* b+3:  294
       Ins("unlock", "wc"),            \* b+4:  308
       Ins("goto", {b + 6, b + 11}),   \* b+5:  456, a mutation or not
       Ins("lock", "lc"),              \* b+6:  230
       Ins("unlock", "lc"),            \* b+7:  242 or 246
       Ins("goto", {b + 9, b + 11}),   \* b+8:  new, or replicated
       Ins("lock", "state"),           \* b+9:  250 or 255
       Ins("unlock", "state"),         \* b+10: 253 or 257
       Ins("goto", next) >>            \* b+11: 459, last_index stored

\* KvStateMachine::make_snapshot (server.rs 339-366)
MakeSnapshotCode ==
    << Ins("lock", "state"),       \* 341
       Ins("lock", "lc"),          \* 351
       Ins("unlock", "lc"),        \* 366, locals dropped in reverse
       Ins("unlock", "state") >>

\* the worker (server.rs 394-427)
ApplyCode ==
    << Ins("recv", {2, 1, 38}) >>              \*  1: 395; handled, skipped (400), virtual (423)
    \o HandleMessageCode(2, {14})              \*  2..13: 402
    \o << Ins("raft", "commit_index"),         \* 14: 404
          Ins("goto", {16, 30}),               \* 15: 405
          Ins("raft", "try_get_log_between"),  \* 16: 407
          Ins("goto", {18, 30}) >>             \* 17: 411, for msg in msgs
    \o HandleMessageCode(18, {17})             \* 18..29: 412
    \o << Ins("raft", "log_size"),             \* 30: 417 (with max_size)
          Ins("goto", {32, 1}) >>              \* 31
    \o MakeSnapshotCode                        \* 32..35: 419
    \o << Ins("raft", "take_snapshot"),        \* 36: 419
          Ins("goto", {1}) >>                  \* 37

\* handle_virtual_command (server.rs 313-336), placed at instruction b, and
\* the end of the worker (server.rs 427)
VirtualCode(b) ==
    << Ins("goto", {b + 1, b + 4}),    \* b:   Ilc or Ikv
       Ins("lock", "lc"),              \* b+1: 321
       Ins("unlock", "lc"),            \* b+2: 326
       Ins("goto", {1}),               \* b+3
       Ins("lock", "state"),           \* b+4: 328
       Ins("unlock", "state"),         \* b+5: 334
       Ins("goto", {1}),               \* b+6
       Ins("end", "worker") >>         \* b+7: the sentinel was received

\* KvServer::kill (server.rs 598-603) with KvStateMachine::shutdown (263-281)
KillCode ==
    << Ins("lock", "server"),          \*  1: 600
       Ins("raft", "kill"),            \*  2: 601
       Ins("send", "sentinel"),        \*  3: 264-272
       Ins("lock", "wc") >>            \*  4: 273, then clear (276)
    \o MakeSnapshotCode                \*  5..8: 280
    \o << Ins("raft", "take_snapshot"),\*  9: 280
          Ins("unlock", "wc"),         \* 10: 281
          Ins("unlock", "server"),     \* 11: 603
          Ins("end", "kill") >>

WorkerCode == ApplyCode \o VirtualCode(Len(ApplyCode) + 1)

Code(t) ==
    CASE t = "put" -> DoPutAppendCode
      [] t = "get" -> DoGetCode
      [] t = "apply" -> WorkerCode
      [] t = "kill" -> KillCode

\* the sentinel is in the worker's channel
SentinelSent == tpc["kill"] > 3

HeldBy(t) == {l \in Locks : owner[l] = t}

Goes(t, j) == tpc' = [tpc EXCEPT ![t] = j]

\* thread t runs its next instruction; a lock waits for the mutex
Step(t) ==
    LET i == tpc[t]
        ins == Code(t)[i]
    IN /\ CASE ins.op = "lock" ->
                 /\ owner[ins.arg] = NoThread
                 /\ owner' = [owner EXCEPT ![ins.arg] = t]
                 /\ Goes(t, i + 1)
            [] ins.op = "unlock" ->
                 /\ owner' = [owner EXCEPT ![ins.arg] = NoThread]
                 /\ Goes(t, i + 1)
            [] ins.op \in {"raft", "await", "send"} ->
                 /\ Goes(t, i + 1)
                 /\ UNCHANGED owner
            [] ins.op = "goto" ->
                 /\ \E j \in ins.arg : Goes(t, j)
                 /\ UNCHANGED owner
            [] ins.op = "recv" ->
                 /\ \E j \in ins.arg \cup (IF SentinelSent THEN {Len(Code(t))} ELSE {}) :
                        Goes(t, j)
                 /\ UNCHANGED owner
            [] ins.op = "end" -> FALSE
       /\ UNCHANGED <<smVars, raftVars, rpcs, clerkVars, effects, lastReply,
                      applyPc, applyM, killPc, kills, snap, persisted, pending,
                      streamVars, timedOut>>

InitLocks ==
    /\ state = EmptyMap
    /\ last_command = EmptyMap
    /\ last_index = 0
    /\ waiting_channels = {}
    /\ rlog = << >>
    /\ clog = << >>
    /\ commitIndex = 0
    /\ believes = FALSE
    /\ rpcs = {}
    /\ ckPc = "idle"
    /\ ckArgs = NoArgs
    /\ ckLeader = NoLeader
    /\ ckOps = 0
    /\ ckHist = << >>
    /\ uuid = 0
    /\ ckTries = 0
    /\ effects = EmptyMap
    /\ lastReply = NoReply
    /\ applyPc = "idle"
    /\ applyM = 0
    /\ killPc = "alive"
    /\ kills = 0
    /\ snap = NoSnapshot
    /\ persisted = NoSnapshot
    /\ pending = NoPending
    /\ timedOut = {}
    /\ streamAt = 1
    /\ catchTo = 0
    /\ tpc = [t \in Threads |-> 1]
    /\ owner = [l \in Locks |-> NoThread]

NextLocks == \E t \in Threads : Step(t)

SpecLocks == InitLocks /\ [][NextLocks]_vars

\* a mutex that is free infinitely often is granted to the thread that waits
\* for it, and a thread that can run does
SpecLocksFair == SpecLocks /\ \A t \in Threads : SF_vars(Step(t))

\* thread t waits for a mutex that a thread holds
Waiting(t) ==
    /\ Code(t)[tpc[t]].op = "lock"
    /\ owner[Code(t)[tpc[t]].arg] # NoThread

\* the thread that holds the mutex t waits for
Blocker(t) ==
    IF t # NoThread /\ Waiting(t) THEN owner[Code(t)[tpc[t]].arg] ELSE NoThread

\* the thread reached from t by n steps from a waiting thread to its blocker
RECURSIVE Chain(_, _)
Chain(t, n) == IF n = 0 THEN t ELSE Blocker(Chain(t, n - 1))

\* the instructions of t that lock a mutex
LockSites(t) == {i \in 1..Len(Code(t)) : Code(t)[i].op = "lock"}

\* thread t is about to call into Raft, or awaits its waiter and the timer
AtRaftOrAwait(t) == Code(t)[tpc[t]].op \in {"raft", "await"}

\* C15: a thread that calls into Raft, and a handler that awaits its waiter,
\* holds no mutex.
C15_NoLockAcrossRaft ==
    \A t \in Threads : AtRaftOrAwait(t) => HeldBy(t) = {}

\* thread t takes mutex l in this step
Takes(t, l) == owner[l] # t /\ owner'[l] = t

\* thread t is the worker in notify_at, past the removal of the slot of a
\* Get and about to lock state (server.rs 289)
InNotifyGet(t) == t = "apply" /\ tpc[t] \in {4, 20}

\* C16: a thread that holds last_command and state took last_command
\* first, and waiting_channels is held with neither, but by the worker in
\* notify_at with state.
C16_LockDiscipline ==
    [][\A t \in Threads :
          /\ Takes(t, "lc") => owner["state"] # t
          /\ (Takes(t, "state") /\ owner["wc"] = t) => InNotifyGet(t)
          /\ Takes(t, "lc") => owner["wc"] # t
          /\ Takes(t, "wc") => (owner["state"] # t /\ owner["lc"] # t)]_vars

AppliedAfterTimeout(t) ==
    /\ t[1] <= Len(clog) /\ t[1] <= last_index
    /\ FromBytes(clog[t[1]]).client = t[2]
    /\ FromBytes(clog[t[1]]).id = t[3]

\* the do_put_append calls of that request that Me has yet to handle
LaterCalls(t) ==
    {h \in rpcs : /\ h.st = "sent" /\ h.to = Me /\ ~IsGet(h)
                  /\ h.req.client = t[2] /\ BuildUuid(h.req.id) = t[3]}

\* C12: a mutation whose handler replied TIMEOUT and whose entry then
\* commits is applied by the replica, and every later do_put_append of the
\* same client and id on the replica replies success without proposing.
C12_TimeoutKeepsProposal ==
    \A t \in timedOut :
        AppliedAfterTimeout(t) =>
            /\ MapGetOr(effects, t[3], 0) >= 1
            /\ \A h \in LaterCalls(t) : HasDone(last_command, t[2], t[3])

\* C13: the clear of shutdown empties the registry in one step; no handler
\* of the replica goes on waiting, and the handler whose waiter it dropped
\* replies err_code CLOSED (5) with wrong_leader false, not success.
C13_ShutdownClosesWaiters ==
    [][(killPc = "noraft" /\ killPc' = "cleared") =>
          /\ waiting_channels' = {}
          /\ {x \in rpcs' : x.st = "wait" /\ x.to = Me} = {}
          /\ (\E x \in rpcs : x.st = "wait" /\ x.to = Me /\ x.live) =>
                 /\ lastReply'.kind = "closed"
                 /\ lastReply'.rep.err_code = KVERR_CLOESD
                 /\ ~lastReply'.rep.wrong_leader
                 /\ ~IsSuccess(lastReply'.rep)]_vars

\* shutdown has just cleared a registry that held the waiter of the call in
\* progress, whose handler has replied CLOSED
C13_Witness ==
    /\ killPc = "cleared" /\ waiting_channels = {}
    /\ lastReply.kind = "closed" /\ lastReply.live
    /\ lastReply.rep.err_code = KVERR_CLOESD

\* C14: Raft is stopped only after shutdown has sent the sentinel, cleared
\* the registry and handed the final snapshot to Raft: no step of shutdown
\* is taken with Raft stopped.
C14_RaftStoppedLast == [][ShutdownStep => ~RaftStopped]_vars

\* C17: a NotLeader result makes a reply with wrong_leader and err_code 2;
\* a waiter fired with another request id makes err_code FAIL_TO_COMMIT (3);
\* the timer makes err_code TIMEOUT (4); wrong_leader is true exactly in the
\* replies of err_code 2.
C17_ReplyClassification ==
    lastReply.kind \notin {"none", "transport"} =>
        /\ lastReply.kind = "notleader" =>
               /\ lastReply.rep.wrong_leader
               /\ lastReply.rep.err_code = KVERR_NOT_LEADER
               /\ lastReply.rep.err = "not leader"
               /\ lastReply.rep.value = EmptyStr
        /\ (/\ lastReply.kind = "waiter" /\ lastReply.to = Me
            /\ FromBytes(clog[lastReply.idx]).id # lastReply.id) =>
               lastReply.rep.err_code = KVERR_FAIL_TO_COMMIT
        /\ lastReply.kind = "timeout" => lastReply.rep.err_code = KVERR_TIMEOUT
        /\ lastReply.rep.wrong_leader <=> lastReply.rep.err_code = KVERR_NOT_LEADER

\* a handler of Me was notified of the entry of another request and has
\* replied FAIL_TO_COMMIT with wrong_leader false
C17_Witness ==
    /\ lastReply.kind = "waiter" /\ lastReply.to = Me
    /\ FromBytes(clog[lastReply.idx]).id # lastReply.id
    /\ lastReply.rep.err_code = KVERR_FAIL_TO_COMMIT
    /\ ~lastReply.rep.wrong_leader

\* C18: the registry holds a waiter only for an index that is yet to be
\* applied, where it is removed once, by notify_at, by a later registration
\* or by the clear of shutdown: a Sender is never left at an index that the
\* replica has passed.
C18_NoStaleWaiter == \A i \in waiting_channels : i > last_index

\* C19: handle_message is entered, from the stream and in catch-up, with an
\* index above last_index, so its assertion holds; a message of the stream
\* with an index not above last_index is dropped, and leaves the KV map,
\* the last-request table, last_index and the registry as they are.
C19_HandleOnlyNewIndex ==
    [][/\ applyPc' = "notify" => last_index' < applyM'
       /\ (/\ applyPc = "idle" /\ streamAt' = streamAt + 1
           /\ last_index >= streamAt) =>
              /\ applyPc' = "idle"
              /\ UNCHANGED <<state, last_command, last_index, waiting_channels>>]_vars

\* the worker has caught up over two entries and has then dropped the
\* message of the stream for the first of them
C19_Witness ==
    /\ applyPc = "idle" /\ catchTo = 0
    /\ applyM = streamAt - 1
    /\ applyM < last_index
    /\ last_index = MaxLog

\* C20: in the application of the entry of index i the slot of i is removed
\* and its response delivered first, whoever listens and whether or not the
\* command is a duplicate; then come the update of the last-request table
\* and the mutation, if any; then last_index is set to i.  The response
\* for i is built from the KV map as it is before any mutation of i.
C20_ApplyOrder ==
    [][/\ (applyPc = "notify" /\ applyPc' # "notify") =>
              /\ applyM \notin waiting_channels'
              /\ last_index < applyM
              /\ UNCHANGED <<state, last_command, last_index, applyM>>
              /\ applyPc' \in {"history", "store"}
              /\ (/\ lastReply'.kind = "waiter" /\ lastReply'.type = "Get"
                  /\ lastReply'.rep.err_code = 0) =>
                     /\ lastReply'.idx = applyM
                     /\ lastReply'.rep.value = MapGetOr(state, lastReply'.key, EmptyStr)
       /\ (applyPc' = "history" /\ applyPc # "history") => applyPc = "notify"
       /\ (applyPc' = "state" /\ applyPc # "state") => applyPc = "history"
       /\ (applyPc' = "store" /\ applyPc # "store") =>
              applyPc \in {"notify", "history", "state"}
       /\ (last_command' # last_command \/ state' # state) =>
              /\ applyPc \in {"history", "state"}
              /\ applyM \notin waiting_channels
              /\ last_index < applyM
              /\ UNCHANGED <<last_index, applyM>>
       /\ last_index' # last_index =>
              /\ applyPc = "store" /\ last_index' = applyM
              /\ UNCHANGED <<state, last_command, waiting_channels>>]_vars

\* the waiter of a Get has just received the value of a key that an earlier
\* entry wrote; its slot is gone and last_index is still below its index
C20_Witness ==
    /\ applyPc = "store"
    /\ lastReply.kind = "waiter" /\ lastReply.type = "Get"
    /\ lastReply.idx = applyM
    /\ lastReply.rep.err_code = 0 /\ lastReply.rep.value # EmptyStr
    /\ applyM \notin waiting_channels
    /\ last_index < applyM

(***************************************************************************)
(* Properties of the application of committed entries and of snapshots.    *)
(***************************************************************************)
\* C21: applying a Put or an Append whose id is the client's entry of the
\* last-request table changes neither the KV map nor the table; any other
\* Put sets the key to the value, any other Append sets it to the old value
\* (empty if absent) followed by the value, and both set the client's entry
\* of the table to the id; applying a Get changes neither.
C21_DedupeRule ==
    [][/\ (state' # state \/ last_command' # last_command) => last_index' # last_index
       /\ last_index' # last_index =>
            LET cmd == FromBytes(clog[last_index'])
                dup == /\ cmd.client \in DOMAIN last_command
                       /\ last_command[cmd.client] = cmd.id
                old == IF cmd.key \in DOMAIN state THEN state[cmd.key] ELSE << >>
            IN IF cmd.type = "Get" \/ dup
               THEN UNCHANGED <<state, last_command>>
               ELSE /\ DOMAIN state' = DOMAIN state \cup {cmd.key}
                    /\ \A k \in DOMAIN state \ {cmd.key} : state'[k] = state[k]
                    /\ state'[cmd.key] =
                          IF cmd.type = "Put" THEN cmd.value ELSE old \o cmd.value
                    /\ DOMAIN last_command' = DOMAIN last_command \cup {cmd.client}
                    /\ \A c \in DOMAIN last_command \ {cmd.client} :
                          last_command'[c] = last_command[c]
                    /\ last_command'[cmd.client] = cmd.id]_vars

\* an Append sits twice in a row in the committed log and both entries are
\* applied: the key holds its value once, after the value of an earlier entry
C21_Witness ==
    /\ last_index = 3
    /\ clog[2] = clog[3]
    /\ clog[1] # clog[2]
    /\ clog[1].msg = "PutAppendRequest"
    /\ clog[2].msg = "PutAppendRequest" /\ clog[2].op = OpAppend
    /\ "k" \in DOMAIN state
    /\ state["k"] = clog[1].value \o clog[2].value
    /\ last_command[clog[3].client] = BuildUuid(clog[3].id)

\* C22: after a stream entry of index i is applied and the commit index c is
\* above i, the entries of (i, c] are applied in ascending order by the
\* steps of handle_message, and the stream's later messages for them are
\* dropped: every application is that of index last_index + 1, so no index
\* is applied twice.
C22_CatchUpOnce ==
    [][/\ (applyPc' = "notify" /\ applyPc # "notify") =>
              /\ applyM' = last_index + 1
              /\ applyM' <= commitIndex
              /\ applyPc = "loop" => (applyM' > applyM /\ applyM' <= catchTo)
       /\ (state' # state \/ last_command' # last_command \/ effects' # effects) =>
              applyM = last_index + 1
       /\ last_index' # last_index =>
              (applyPc = "store" /\ last_index' = last_index + 1)
       /\ (applyPc = "idle" /\ streamAt' # streamAt /\ streamAt <= last_index) =>
              (applyPc' = "idle" /\ UNCHANGED <<smVars, effects>>)]_vars

\* an Append of the batch the worker caught up with has been applied once,
\* and the message of the stream for it has then been dropped
C22_Witness ==
    /\ applyPc = "idle" /\ catchTo = 0
    /\ applyM = streamAt - 1
    /\ applyM > 1
    /\ applyM <= last_index
    /\ streamAt <= last_index
    /\ clog[applyM].msg = "PutAppendRequest"
    /\ MapGetOr(effects, BuildUuid(clog[applyM].id), 0) = 1

\* C23: every snapshot handed to raft.take_snapshot(file, idx), by the worker
\* or by shutdown beside the worker, holds the KV map and the last-request
\* table that result from applying the entries of index <= idx, and idx as
\* its stored last index.
C23_SnapshotConsistent ==
    persisted.made =>
        LET applied == SubSeq(clog, 1, persisted.idx)
        IN persisted.file = SnapshotFile(KvOf(applied), persisted.idx, LcOf(applied))

\* C24: when the worker notifies and removes the slot of an index, no handler
\* whose proposal got that index, and whose command is the entry committed
\* there, has still to insert its waiter.
C24_NoLostNotification ==
    [][(applyPc = "notify" /\ applyPc' # "notify") =>
          \A h \in rpcs :
              ~(/\ h.st = "started" /\ h.to = Me
                /\ h.idx = applyM /\ clog[applyM] = h.req)]_vars

\* C25: no threads of the worker, the handlers and kill wait for each other's
\* mutexes in a cycle, and a thread that is to lock a mutex gets it.
C25_DeadlockFree ==
    /\ [](\A t \in Threads : Chain(t, Cardinality(Threads)) = NoThread)
    /\ \A t \in Threads : \A i \in LockSites(t) : (tpc[t] = i) ~> (tpc[t] # i)

\* kill holds the server mutex and waiting_channels and waits for state,
\* which the worker holds; a handler waits for the server mutex
C25_Witness ==
    /\ owner["server"] = "kill" /\ owner["wc"] = "kill"
    /\ Waiting("kill") /\ Blocker("kill") = "apply"
    /\ Waiting("put") /\ Blocker("put") = "kill"
    /\ ~Waiting("apply")

(***************************************************************************)
(* A property of the clerk's cached leader.                                *)
(***************************************************************************)
\* C26: the clerk sets its cached leader to a replica only on a reply that
\* the replica produced for a command it had proposed with success, as the
\* leader.
C26_AdoptsOnlyLeader ==
    [][(ckLeader' # ckLeader /\ ckLeader' # NoLeader) =>
          /\ lastReply'.kind # "none"
          /\ lastReply'.to = ckLeader'
          /\ lastReply'.kind \notin {"fast", "rafterr"}]_vars

====
